---- MODULE Spec2Model ----
(***************************************************************************)
(* Model of parse_pdf (src/app.py), the sequential line classifier that    *)
(* turns the text lines of a cadastral PDF into lot records.  Lines are    *)
(* strings; the regular expressions of the source are evaluated character  *)
(* by character.                                                           *)
(***************************************************************************)
EXTENDS Integers, Sequences, FiniteSets, TLC

VARIABLES
    sections_filtre,        \* list of section codes given by the caller
    plans_filtre,           \* list of plan numbers given by the caller
    doc,                    \* pages of the file read so far (each a list of lines)
    page_no,                \* number of pages the running call has taken from pdf.pages
    lines,                  \* lines of the current page not yet processed
    current_section,
    current_plan,
    current_proprietaire,
    current_adresse,
    is_in_relevant_parcel,
    data,
    hist,                   \* history: one entry per processed line, with the state before it
    pc,                     \* "pages": at the page loop, "lines": in the line loop, "returned"
    call,                   \* 1 for the first call of parse_pdf on the file, 2 for the second
    df_results,             \* what each finished call returned
    st_out                  \* what the running analysis has written to the page

vars == <<sections_filtre, plans_filtre, doc, page_no, lines, current_section,
          current_plan, current_proprietaire, current_adresse,
          is_in_relevant_parcel, data, hist, pc, call, df_results, st_out>>

----------------------------------------------------------------------------
(* Characters and Python string methods *)

Ch(s, i) == SubSeq(s, i, i)

LowerAlpha == "abcdefghijklmnopqrstuvwxyz"
UpperAlpha == "ABCDEFGHIJKLMNOPQRSTUVWXYZ"
DigitChars == "0123456789"

CharsOf(s) == {Ch(s, i) : i \in 1..Len(s)}

LowerSet == CharsOf(LowerAlpha)
UpperSet == CharsOf(UpperAlpha)
DigitSet == CharsOf(DigitChars)

\* \s of the re module and the whitespace of str.strip()
IsSpace(c) == c \in {" ", "\t", "\n", "\r", "\f"}
\* \d
IsDigit(c) == c \in DigitSet
\* [a-zA-Z]
IsLetter(c) == c \in LowerSet \cup UpperSet
\* \w
IsWord(c) == IsLetter(c) \/ IsDigit(c) \/ c = "_"
\* [A-Z\s/.'-]
IsOwnerChar(c) == c \in UpperSet \/ IsSpace(c) \/ c \in {"/", ".", "'", "-"}

UpperChar(c) ==
    IF c \in LowerSet
    THEN Ch(UpperAlpha, CHOOSE i \in 1..Len(LowerAlpha) : Ch(LowerAlpha, i) = c)
    ELSE c

RECURSIVE upper(_)
upper(s) == IF s = "" THEN "" ELSE UpperChar(Ch(s, 1)) \o upper(Tail(s))

\* str.strip(): leading and trailing whitespace removed
strip(s) ==
    LET idx == {i \in 1..Len(s) : ~IsSpace(Ch(s, i))}
    IN  IF idx = {} THEN ""
        ELSE SubSeq(s, CHOOSE i \in idx : \A j \in idx : i <= j,
                       CHOOSE i \in idx : \A j \in idx : j <= i)

\* str.replace(" ", ""): only the space character is removed
RECURSIVE replace_spaces(_)
replace_spaces(s) ==
    IF s = "" THEN ""
    ELSE (IF Ch(s, 1) = " " THEN "" ELSE Ch(s, 1)) \o replace_spaces(Tail(s))

\* "\n".join(list)
RECURSIVE join_newline(_)
join_newline(l) ==
    IF l = <<>> THEN ""
    ELSE IF Len(l) = 1 THEN l[1]
    ELSE l[1] \o "\n" \o join_newline(Tail(l))

\* text.split('\n')
RECURSIVE split_newline(_)
split_newline(text) ==
    LET nl == {i \in 1..Len(text) : Ch(text, i) = "\n"}
    IN  IF nl = {} THEN <<text>>
        ELSE LET k == CHOOSE i \in nl : \A j \in nl : i <= j
             IN  <<SubSeq(text, 1, k - 1)>> \o split_newline(SubSeq(text, k + 1, Len(text)))

\* x in list
InList(x, l) == \E i \in 1..Len(l) : l[i] = x

----------------------------------------------------------------------------
(* The regular expressions of parse_pdf *)

CharAt(s, i) == IF i >= 1 /\ i <= Len(s) THEN Ch(s, i) ELSE ""

\* \s* from position i: the position after the longest run of whitespace
SpaceEnd(s, i) ==
    CHOOSE j \in i..(Len(s) + 1) :
        /\ \A k \in i..(j - 1) : IsSpace(Ch(s, k))
        /\ (j = Len(s) + 1 \/ ~IsSpace(Ch(s, j)))

\* \d* from position i: the position after the longest run of digits
DigitEnd(s, i) ==
    CHOOSE j \in i..(Len(s) + 1) :
        /\ \A k \in i..(j - 1) : IsDigit(Ch(s, k))
        /\ (j = Len(s) + 1 \/ ~IsDigit(Ch(s, j)))

\* \w* from position i: the position after the longest run of word characters
WordEnd(s, i) ==
    CHOOSE j \in i..(Len(s) + 1) :
        /\ \A k \in i..(j - 1) : IsWord(Ch(s, k))
        /\ (j = Len(s) + 1 \/ ~IsWord(Ch(s, j)))

\* re.search tries the positions from left to right: the leftmost one that matches
Leftmost(starts) == CHOOSE i \in starts : \A j \in starts : i <= j

\* a literal under re.IGNORECASE
MatchLit(s, i, lit) ==
    /\ i + Len(lit) - 1 <= Len(s)
    /\ upper(SubSeq(s, i, i + Len(lit) - 1)) = upper(lit)

NoMatch == [matched |-> FALSE, g1 |-> "", g2 |-> ""]

\* \s*Plan\s*:\s*(\d+) matched at position e, with the place of the digits
PlanAt(s, e) ==
    LET p == SpaceEnd(s, e)
        q == SpaceEnd(s, p + 4)
        r == SpaceEnd(s, q + 1)
        d == DigitEnd(s, r)
    IN  IF MatchLit(s, p, "Plan") /\ CharAt(s, q) = ":" /\ d > r
        THEN [ok |-> TRUE, from |-> r, to |-> d - 1]
        ELSE [ok |-> FALSE, from |-> 0, to |-> 0]

\* Section\s*:\s*(\w+)\s*Plan\s*:\s*(\d+) matched at position i; \w+ is greedy
\* and gives characters back until the rest matches
HeaderAt(s, i) ==
    LET b == SpaceEnd(s, i + 7)
        c == SpaceEnd(s, b + 1)
        w == WordEnd(s, c)
        ends == {e \in (c + 1)..w : PlanAt(s, e).ok}
    IN  IF MatchLit(s, i, "Section") /\ CharAt(s, b) = ":" /\ ends # {}
        THEN LET e == CHOOSE x \in ends : \A y \in ends : y <= x
             IN  [matched |-> TRUE,
                  g1 |-> SubSeq(s, c, e - 1),
                  g2 |-> SubSeq(s, PlanAt(s, e).from, PlanAt(s, e).to)]
        ELSE NoMatch

\* re.search(r"Section\s*:\s*(\w+)\s*Plan\s*:\s*(\d+)", line, re.IGNORECASE)
header_match(line) ==
    LET starts == {i \in 1..Len(line) : HeaderAt(line, i).matched}
    IN  IF starts = {} THEN NoMatch ELSE HeaderAt(line, Leftmost(starts))

LotAt(s, i) ==
    LET b == SpaceEnd(s, i + 3)
        d == DigitEnd(s, b)
    IN  IF MatchLit(s, i, "Lot") /\ b > i + 3 /\ d > b
        THEN [matched |-> TRUE, g1 |-> SubSeq(s, b, d - 1), g2 |-> ""]
        ELSE NoMatch

\* re.search(r"Lot\s+(\d+)", line, re.IGNORECASE)
lot_match(line) ==
    LET starts == {i \in 1..Len(line) : LotAt(line, i).matched}
    IN  IF starts = {} THEN NoMatch ELSE LotAt(line, Leftmost(starts))

TantiemesAt(s, i) ==
    LET a == DigitEnd(s, i)
        b == SpaceEnd(s, a)
        c == SpaceEnd(s, b + 1)
        d == DigitEnd(s, c)
    IN  IF a > i /\ CharAt(s, b) = "/" /\ d > c
        THEN [matched |-> TRUE, g1 |-> SubSeq(s, i, d - 1), g2 |-> ""]
        ELSE NoMatch

\* re.search(r"(\d+\s*/\s*\d+)", line)
tantiemes_match(line) ==
    LET starts == {i \in 1..Len(line) : TantiemesAt(line, i).matched}
    IN  IF starts = {} THEN NoMatch ELSE TantiemesAt(line, Leftmost(starts))

\* re.match(r"^[A-Z\s/.'-]{5,}$", line.strip())
MinNameLen == 5
name_match(line) ==
    LET t == strip(line)
    IN  Len(t) >= MinNameLen /\ \A i \in 1..Len(t) : IsOwnerChar(Ch(t, i))

\* "LOT" not in line.upper()
Contains(s, sub) ==
    \E i \in 1..Len(s) :
        i + Len(sub) - 1 <= Len(s) /\ SubSeq(s, i, i + Len(sub) - 1) = sub

\* re.search(r"\d", line) and re.search(r"[a-zA-Z]", line)
address_match(line) ==
    /\ \E i \in 1..Len(line) : IsDigit(Ch(line, i))
    /\ \E i \in 1..Len(line) : IsLetter(Ch(line, i))

----------------------------------------------------------------------------
(* The lines a page of the file may hold *)

HeaderAC == "Section : AC Plan : 124"
HeaderBD == "section: bd plan: 0124"
NameDupont == "DUPONT JEAN"
NameMartin == "  MARTIN PAUL "
AddressPaix == " 1 RUE DE LA PAIX 75001 PARIS"
LotSpaces == "Lot 1  123 / 10000"
LotTabs == "lot 2 1\t/\t2"
EmptyLine == ""
HeaderLot == "Section : AC Plan : 124 Lot 3 1/2"
AddressParis == "75001 Paris"
Dashes == "-----"
Blank == "  "

LinePool == {HeaderAC, HeaderBD, NameDupont, NameMartin, AddressPaix, LotSpaces,
             LotTabs, EmptyLine}

\* every line that a page may hold in some specification of this module
AllLines == LinePool \cup {HeaderLot, AddressParis, Dashes, Blank}

\* a line with the results of the searches that the loop body makes on it
\* (header_match, lot_match and tantiemes_match are locals of parse_pdf)
Scan(l) ==
    [line |-> l,
     header_match |-> header_match(l),
     lot_match |-> lot_match(l),
     tantiemes_match |-> tantiemes_match(l),
     name_match |-> name_match(l),
     has_LOT |-> Contains(upper(l), "LOT"),
     address_match |-> address_match(l),
     stripped |-> strip(l)]

\* the scan of each line, evaluated once per line
Scanned == [l \in AllLines |-> Scan(l)]

----------------------------------------------------------------------------
(* The body of the line loop of parse_pdf, on the local variables of a call *)

None == "None"

Locals ==
    [data |-> data,
     current_section |-> current_section,
     current_plan |-> current_plan,
     current_proprietaire |-> current_proprietaire,
     current_adresse |-> current_adresse,
     is_in_relevant_parcel |-> is_in_relevant_parcel]

CallLocalsKeepData(prev) ==
    [data |-> prev.data,
     current_section |-> prev.current_section,
     current_plan |-> prev.current_plan,
     current_proprietaire |-> <<>>,
     current_adresse |-> "",
     is_in_relevant_parcel |-> FALSE]

\* the locals as parse_pdf sets them when it is called; prev holds the values the
\* names had when the previous call ended, which a new call does not read
CallLocals(prev) ==
    [data |-> <<>>,
     current_section |-> None,
     current_plan |-> None,
     current_proprietaire |-> <<>>,
     current_adresse |-> "",
     is_in_relevant_parcel |-> FALSE]

HeaderSectionAsWritten(m) == strip(m.header_match.g1)

\* header_match.group(1).strip().upper()
HeaderSection(m) == upper(strip(m.header_match.g1))

\* header_match.group(2).strip()
HeaderPlan(m) == strip(m.header_match.g2)

RelevantParcelEither(section, plan, sf, pf) == InList(section, sf) \/ InList(plan, pf)

\* current_section in sections_filtre and current_plan in plans_filtre
RelevantParcel(section, plan, sf, pf) == InList(section, sf) /\ InList(plan, pf)

AfterHeaderKeepOwner(st, m, sf, pf) ==
    [st EXCEPT !.current_section = HeaderSection(m),
               !.current_plan = HeaderPlan(m),
               !.is_in_relevant_parcel =
                    RelevantParcel(HeaderSection(m), HeaderPlan(m), sf, pf),
               !.current_adresse = ""]

AfterHeaderResetIfRelevant(st, m, sf, pf) ==
    IF RelevantParcel(HeaderSection(m), HeaderPlan(m), sf, pf)
    THEN [st EXCEPT !.current_section = HeaderSection(m),
                    !.current_plan = HeaderPlan(m),
                    !.is_in_relevant_parcel = TRUE,
                    !.current_proprietaire = <<>>,
                    !.current_adresse = ""]
    ELSE [st EXCEPT !.current_section = HeaderSection(m),
                    !.current_plan = HeaderPlan(m),
                    !.is_in_relevant_parcel = FALSE]

\* if header_match: ... continue
AfterHeader(st, m, sf, pf) ==
    [st EXCEPT !.current_section = HeaderSection(m),
               !.current_plan = HeaderPlan(m),
               !.is_in_relevant_parcel =
                    RelevantParcel(HeaderSection(m), HeaderPlan(m), sf, pf),
               !.current_proprietaire = <<>>,
               !.current_adresse = ""]

\* tantiemes_match.group(1).replace(" ", "")
Tantiemes(m) == replace_spaces(m.tantiemes_match.g1)

\* the dictionary appended to data
LotRecord(st, m) ==
    [Section |-> st.current_section,
     Plan |-> st.current_plan,
     N_Lot |-> m.lot_match.g1,
     Tantiemes |-> Tantiemes(m),
     Proprietaires |-> join_newline(st.current_proprietaire),
     Adresse_Postale_Proprietaire |-> strip(st.current_adresse)]

AfterLotUnguarded(st, m) == [st EXCEPT !.data = Append(st.data, LotRecord(st, m))]

AfterLotPrepend(st, m) ==
    IF st.current_proprietaire # <<>>
    THEN [st EXCEPT !.data = <<LotRecord(st, m)>> \o st.data]
    ELSE st

\* if lot_match and tantiemes_match: ... if current_proprietaire: data.append(...)
AfterLot(st, m) ==
    IF st.current_proprietaire # <<>>
    THEN [st EXCEPT !.data = Append(st.data, LotRecord(st, m))]
    ELSE st

AfterNameNewBlock(st, m) ==
    [st EXCEPT !.current_proprietaire = <<m.stripped>>,
               !.current_adresse = ""]

AfterNameSameBlock(st, m) ==
    [st EXCEPT !.current_proprietaire = Append(st.current_proprietaire, m.stripped),
               !.current_adresse = ""]

\* the owner-name branch: a name after a captured address starts a new block
AfterName(st, m) ==
    IF st.current_adresse # ""
    THEN [st EXCEPT !.current_proprietaire = <<m.stripped>>,
                    !.current_adresse = ""]
    ELSE [st EXCEPT !.current_proprietaire = Append(st.current_proprietaire, m.stripped)]

\* current_adresse += line.strip() + "\n"
AfterAddress(st, m) ==
    [st EXCEPT !.current_adresse = st.current_adresse \o m.stripped \o "\n"]

\* if lot_match and tantiemes_match
IsLotLine(m) == m.lot_match.matched /\ m.tantiemes_match.matched

\* the condition of the owner-name branch
IsNameLine(m) ==
    /\ m.name_match
    /\ ~m.lot_match.matched
    /\ ~m.tantiemes_match.matched
    /\ ~m.has_LOT

LineKindLotFirst(st, m) ==
    IF st.is_in_relevant_parcel /\ IsLotLine(m)
    THEN (IF st.current_proprietaire # <<>> THEN "lot" ELSE "lot_no_owner")
    ELSE IF m.header_match.matched THEN "header"
    ELSE IF ~st.is_in_relevant_parcel THEN "skipped"
    ELSE IF IsNameLine(m) THEN "name"
    ELSE IF st.current_proprietaire # <<>> /\ st.current_adresse = "" /\ m.address_match
         THEN "address"
    ELSE "ignored"

LineKindAddressNoOwner(st, m) ==
    IF m.header_match.matched THEN "header"
    ELSE IF ~st.is_in_relevant_parcel THEN "skipped"
    ELSE IF IsLotLine(m)
         THEN (IF st.current_proprietaire # <<>> THEN "lot" ELSE "lot_no_owner")
    ELSE IF IsNameLine(m) THEN "name"
    ELSE IF st.current_adresse = "" /\ m.address_match THEN "address"
    ELSE "ignored"

LineKindAddressAgain(st, m) ==
    IF m.header_match.matched THEN "header"
    ELSE IF ~st.is_in_relevant_parcel THEN "skipped"
    ELSE IF IsLotLine(m)
         THEN (IF st.current_proprietaire # <<>> THEN "lot" ELSE "lot_no_owner")
    ELSE IF IsNameLine(m) THEN "name"
    ELSE IF st.current_proprietaire # <<>> /\ m.address_match THEN "address"
    ELSE "ignored"

\* the branch of the loop body that a line takes in state st
LineKind(st, m) ==
    IF m.header_match.matched THEN "header"
    ELSE IF ~st.is_in_relevant_parcel THEN "skipped"
    ELSE IF IsLotLine(m)
         THEN (IF st.current_proprietaire # <<>> THEN "lot" ELSE "lot_no_owner")
    ELSE IF IsNameLine(m) THEN "name"
    ELSE IF st.current_proprietaire # <<>> /\ st.current_adresse = "" /\ m.address_match
         THEN "address"
    ELSE "ignored"

LineStepEndsBlock(st, m, k, sf, pf) ==
    IF k = "header" THEN AfterHeader(st, m, sf, pf)
    ELSE IF k \in {"lot", "lot_no_owner"} THEN AfterLot(st, m)
    ELSE IF k = "name" THEN AfterName(st, m)
    ELSE IF k = "address" THEN AfterAddress(st, m)
    ELSE [st EXCEPT !.current_proprietaire = <<>>, !.current_adresse = ""]

\* one iteration of "for line in lines" that takes branch k
LineStep(st, m, k, sf, pf) ==
    IF k = "header" THEN AfterHeader(st, m, sf, pf)
    ELSE IF k \in {"lot", "lot_no_owner"} THEN AfterLot(st, m)
    ELSE IF k = "name" THEN AfterName(st, m)
    ELSE IF k = "address" THEN AfterAddress(st, m)
    ELSE st

SetLocals(st) ==
    /\ data' = st.data
    /\ current_section' = st.current_section
    /\ current_plan' = st.current_plan
    /\ current_proprietaire' = st.current_proprietaire
    /\ current_adresse' = st.current_adresse
    /\ is_in_relevant_parcel' = st.is_in_relevant_parcel

----------------------------------------------------------------------------
(* The file: pages, each a list of text lines *)

\* page.extract_text(): the lines of the page joined by newlines, "" for a page without text
extract_text(page) == join_newline(page)

\* the pages of at most k lines taken from pool
PagesOf(pool, k) == UNION {[1..n -> pool] : n \in 0..k}

\* text.split('\n'), each line with its scan
SplitLines(text) ==
    LET l == split_newline(text)
    IN  [i \in 1..Len(l) |-> Scanned[l[i]]]

TakePageNewBlock(page) ==
    /\ page_no' = page_no + 1
    /\ IF extract_text(page) = ""
       THEN lines' = <<>> /\ pc' = "pages"
       ELSE lines' = SplitLines(extract_text(page)) /\ pc' = "lines"
    /\ current_proprietaire' = <<>>
    /\ current_adresse' = ""
    /\ UNCHANGED <<sections_filtre, plans_filtre, current_section, current_plan,
                   is_in_relevant_parcel, data, hist, call, df_results, st_out>>

\* for page in pdf.pages: text = page.extract_text(); if not text: continue;
\* lines = text.split('\n')
TakePage(page) ==
    /\ page_no' = page_no + 1
    /\ IF extract_text(page) = ""
       THEN lines' = <<>> /\ pc' = "pages"
       ELSE lines' = SplitLines(extract_text(page)) /\ pc' = "lines"
    /\ UNCHANGED <<sections_filtre, plans_filtre, current_section, current_plan,
                   current_proprietaire, current_adresse, is_in_relevant_parcel,
                   data, hist, call, df_results, st_out>>

\* the first call finds the next page of the file
NewPage(page) ==
    /\ pc = "pages" /\ call = 1
    /\ doc' = Append(doc, page)
    /\ TakePage(page)

\* a later call reads the same file again
ReplayPage ==
    /\ pc = "pages" /\ call > 1
    /\ page_no < Len(doc)
    /\ doc' = doc
    /\ TakePage(doc[page_no + 1])

\* one iteration of the line loop, on a line that takes branch k
ProcessLine(k) ==
    /\ pc = "lines"
    /\ lines # <<>>
    /\ LineKind(Locals, Head(lines)) = k
    /\ SetLocals(LineStep(Locals, Head(lines), k, sections_filtre, plans_filtre))
    /\ hist' = Append(hist, [line |-> Head(lines).line, kind |-> k, before |-> Locals])
    /\ lines' = Tail(lines)
    /\ pc' = IF Tail(lines) = <<>> THEN "pages" ELSE "lines"
    /\ UNCHANGED <<sections_filtre, plans_filtre, doc, page_no, call, df_results, st_out>>

LineHeader ==
    /\ pc = "lines"
    /\ ProcessLine("header")

LineSkipped ==
    /\ pc = "lines"
    /\ ProcessLine("skipped")

LineLot ==
    /\ pc = "lines"
    /\ ProcessLine("lot")

LineLotNoOwner ==
    /\ pc = "lines"
    /\ ProcessLine("lot_no_owner")

LineName ==
    /\ pc = "lines"
    /\ ProcessLine("name")

LineAddress ==
    /\ pc = "lines"
    /\ ProcessLine("address")

LineIgnored ==
    /\ pc = "lines"
    /\ ProcessLine("ignored")

\* an element written to the page: a notice, or a table of records
Out(kind, df) == [kind |-> kind, df |-> df]

\* if not df_results.empty: st.success, st.dataframe, st.download_button;
\* else: st.warning
ShowResults(df) ==
    IF df # <<>>
    THEN <<Out("success", <<>>), Out("dataframe", df), Out("download_button", df)>>
    ELSE <<Out("warning", <<>>)>>

\* return pd.DataFrame(data), once pdf.pages is exhausted; the caller binds
\* df_results and shows it
Return ==
    /\ pc = "pages"
    /\ call = 1 \/ page_no = Len(doc)
    /\ pc' = "returned"
    /\ df_results' = Append(df_results, data)
    /\ st_out' = st_out \o ShowResults(data)
    /\ UNCHANGED <<sections_filtre, plans_filtre, doc, page_no, lines, current_section,
                   current_plan, current_proprietaire, current_adresse,
                   is_in_relevant_parcel, data, hist, call>>

\* the analysis is started again on the same file with the same filters
CallAgain ==
    /\ pc = "returned" /\ call = 1
    /\ call' = 2
    /\ SetLocals(CallLocals(Locals))
    /\ page_no' = 0
    /\ lines' = <<>>
    /\ hist' = <<>>
    /\ pc' = "pages"
    /\ st_out' = <<>>
    /\ UNCHANGED <<sections_filtre, plans_filtre, doc, df_results>>

Exceptions == {"PDFSyntaxError", "ValueError"}

RaiseShowPartial(e) ==
    /\ pc = "pages"
    /\ pc' = "failed"
    /\ st_out' = st_out \o <<Out("error", e), Out("dataframe", data)>>
    /\ UNCHANGED <<sections_filtre, plans_filtre, doc, page_no, lines, current_section,
                   current_plan, current_proprietaire, current_adresse,
                   is_in_relevant_parcel, data, hist, call, df_results>>

\* pdfplumber.open, pdf.pages or page.extract_text() raises e: parse_pdf is left
\* without a return value, df_results is not bound, and the except clause writes
\* the two error notices.  The locals keep the last values of the abandoned call.
Raise(e) ==
    /\ pc = "pages"
    /\ pc' = "failed"
    /\ st_out' = st_out \o <<Out("error", e), Out("error", "format")>>
    /\ UNCHANGED <<sections_filtre, plans_filtre, doc, page_no, lines, current_section,
                   current_plan, current_proprietaire, current_adresse,
                   is_in_relevant_parcel, data, hist, call, df_results>>

\* the button is pressed again with a newly uploaded file: the script runs from
\* its first line with the same two text inputs
NewAnalysis ==
    /\ pc \in {"returned", "failed"}
    /\ SetLocals(CallLocals(Locals))
    /\ doc' = <<>>
    /\ page_no' = 0
    /\ lines' = <<>>
    /\ hist' = <<>>
    /\ pc' = "pages"
    /\ call' = 1
    /\ df_results' = <<>>
    /\ st_out' = <<>>
    /\ UNCHANGED <<sections_filtre, plans_filtre>>

NoLocals ==
    [data |-> <<>>, current_section |-> None, current_plan |-> None,
     current_proprietaire |-> <<>>, current_adresse |-> "",
     is_in_relevant_parcel |-> FALSE]

\* the state when parse_pdf has set its locals and reaches the page loop
InitWith(filters) ==
    /\ \E f \in filters : sections_filtre = f[1] /\ plans_filtre = f[2]
    /\ doc = <<>>
    /\ page_no = 0
    /\ lines = <<>>
    /\ data = CallLocals(NoLocals).data
    /\ current_section = CallLocals(NoLocals).current_section
    /\ current_plan = CallLocals(NoLocals).current_plan
    /\ current_proprietaire = CallLocals(NoLocals).current_proprietaire
    /\ current_adresse = CallLocals(NoLocals).current_adresse
    /\ is_in_relevant_parcel = CallLocals(NoLocals).is_in_relevant_parcel
    /\ hist = <<>>
    /\ pc = "pages"
    /\ call = 1
    /\ df_results = <<>>
    /\ st_out = <<>>

----------------------------------------------------------------------------
(* Specifications *)

\* the filters as the caller builds them from the two text inputs
FilterPool == {<< <<"AC">>, <<"124">> >>,
               << <<"AC", "BD">>, <<"0124">> >>,
               << <<"BD">>, <<"124">> >>}

MaxPages == 4

CorePages == PagesOf(LinePool, 1)

ReadPage ==
    /\ Len(doc) < MaxPages
    /\ \E page \in CorePages : NewPage(page)

Init == InitWith(FilterPool)

Next ==
    \/ ReadPage
    \/ LineHeader
    \/ LineSkipped
    \/ LineLot
    \/ LineLotNoOwner
    \/ LineName
    \/ LineAddress
    \/ LineIgnored
    \/ Return

Spec == Init /\ [][Next]_vars

\* Owner blocks: one line per page, the lines that open, fill and close a block
BlockLines == {HeaderAC, HeaderBD, NameDupont, NameMartin, AddressPaix, LotSpaces}

BlockPages == {<<l>> : l \in BlockLines}

MaxBlockPages == 6

ReadBlockPage ==
    /\ Len(doc) < MaxBlockPages
    /\ \E page \in BlockPages : NewPage(page)

InitBlocks == InitWith({<< <<"AC">>, <<"124">> >>})

NextBlocks ==
    \/ ReadBlockPage
    \/ LineHeader
    \/ LineSkipped
    \/ LineLot
    \/ LineLotNoOwner
    \/ LineName
    \/ LineAddress
    \/ LineIgnored
    \/ Return

SpecBlocks == InitBlocks /\ [][NextBlocks]_vars

\* Two calls on the same file
MaxRerunPages == 3

ReadRerunPage ==
    /\ Len(doc) < MaxRerunPages
    /\ \E page \in CorePages : NewPage(page)

NextRerun ==
    \/ ReadRerunPage
    \/ ReplayPage
    \/ LineHeader
    \/ LineSkipped
    \/ LineLot
    \/ LineLotNoOwner
    \/ LineName
    \/ LineAddress
    \/ LineIgnored
    \/ Return
    \/ CallAgain

SpecRerun == Init /\ [][NextRerun]_vars

\* Pages of several lines
CutLines == {HeaderAC, NameDupont, AddressPaix, LotSpaces, EmptyLine}

MaxPageLines == 2
MaxCutPages == 3
MaxCutLines == 4

CutPages == PagesOf(CutLines, MaxPageLines)

RECURSIVE Flatten(_)
Flatten(pages) == IF pages = <<>> THEN <<>> ELSE Head(pages) \o Flatten(Tail(pages))

ReadCutPage ==
    /\ Len(doc) < MaxCutPages
    /\ \E page \in CutPages :
          /\ Len(Flatten(doc)) + Len(page) <= MaxCutLines
          /\ NewPage(page)

InitPages == InitWith({<< <<"AC">>, <<"124">> >>})

NextPages ==
    \/ ReadCutPage
    \/ LineHeader
    \/ LineSkipped
    \/ LineLot
    \/ LineLotNoOwner
    \/ LineName
    \/ LineAddress
    \/ LineIgnored
    \/ Return

SpecPages == InitPages /\ [][NextPages]_vars

\* The rules of the line loop: one line per page, lines that several rules could take
RuleLines == {HeaderAC, HeaderLot, NameDupont, AddressPaix, AddressParis, LotSpaces,
              Dashes, Blank}

RulePages == {<<l>> : l \in RuleLines}

MaxRulePages == 5

ReadRulePage ==
    /\ Len(doc) < MaxRulePages
    /\ \E page \in RulePages : NewPage(page)

InitRules == InitWith({<< <<"AC">>, <<"124">> >>})

NextRules ==
    \/ ReadRulePage
    \/ LineHeader
    \/ LineSkipped
    \/ LineLot
    \/ LineLotNoOwner
    \/ LineName
    \/ LineAddress
    \/ LineIgnored
    \/ Return

SpecRules == InitRules /\ [][NextRules]_vars

\* A call that the library may abandon with an exception
MaxFailPages == 3

ReadFailPage ==
    /\ Len(doc) < MaxFailPages
    /\ \E page \in CorePages : NewPage(page)

RaiseException ==
    /\ pc = "pages"
    /\ \E e \in Exceptions : Raise(e)

NextFail ==
    \/ ReadFailPage
    \/ LineHeader
    \/ LineSkipped
    \/ LineLot
    \/ LineLotNoOwner
    \/ LineName
    \/ LineAddress
    \/ LineIgnored
    \/ Return
    \/ RaiseException
    \/ NewAnalysis

SpecFail == Init /\ [][NextFail]_vars

----------------------------------------------------------------------------
(* Properties of one call *)

ToSet(l) == {l[i] : i \in 1..Len(l)}

IsPrefix(a, b) == Len(a) <= Len(b) /\ SubSeq(b, 1, Len(a)) = a

\* the locals after the i-th processed line
After(i) == IF i < Len(hist) THEN hist[i + 1].before ELSE Locals

NoHeader(l) == ~Scanned[l].header_match.matched

\* contains "Lot <digits>" and a fraction, and is no header
LotShareLine(l) ==
    NoHeader(l) /\ Scanned[l].lot_match.matched /\ Scanned[l].tantiemes_match.matched

\* the uppercased section code and the digit string of a header line
SectionOf(l) == upper(Scanned[l].header_match.g1)
PlanOf(l) == Scanned[l].header_match.g2

NoWhitespace(s) == \A i \in 1..Len(s) : ~IsSpace(Ch(s, i))

AllDigits(s) == s # "" /\ \A i \in 1..Len(s) : IsDigit(Ch(s, i))

\* <digits>/<digits>
FractionForm(s) ==
    \E k \in 1..Len(s) :
        /\ Ch(s, k) = "/"
        /\ AllDigits(SubSeq(s, 1, k - 1))
        /\ AllDigits(SubSeq(s, k + 1, Len(s)))

RECURSIVE RemoveWhitespace(_)
RemoveWhitespace(s) ==
    IF s = "" THEN ""
    ELSE (IF IsSpace(Ch(s, 1)) THEN "" ELSE Ch(s, 1)) \o RemoveWhitespace(Tail(s))

\* C1: every emitted record has its Section in the section filter and its Plan in
\* the plan filter, and no line processed while the parcel is not relevant, or
\* before any header, adds a record.
C1_NoLeak ==
    /\ \A i \in 1..Len(data) :
          /\ data[i].Section \in ToSet(sections_filtre)
          /\ data[i].Plan \in ToSet(plans_filtre)
    /\ \A i \in 1..Len(hist) :
          (~hist[i].before.is_in_relevant_parcel \/ hist[i].before.current_section = None)
              => After(i).data = hist[i].before.data

\* a record was emitted, and a lot/share line was met outside a relevant parcel
C1_Witness ==
    /\ data # <<>>
    /\ \E i \in 1..Len(hist) :
          ~hist[i].before.is_in_relevant_parcel /\ LotShareLine(hist[i].line)

\* C2: a lot/share line processed in a relevant parcel while the owner block is
\* empty adds no record: the records, and the rest of the parsing state, are left
\* as they were, and the call goes on with the next line or page.
C2_LotWithoutOwner ==
    \A i \in 1..Len(hist) :
        ( /\ hist[i].before.is_in_relevant_parcel
          /\ LotShareLine(hist[i].line)
          /\ hist[i].before.current_proprietaire = <<>> )
            => /\ Len(After(i).data) = Len(hist[i].before.data)
               /\ After(i) = hist[i].before
               /\ hist[i].kind = "lot_no_owner"

\* such a lot line was processed and an owner and a lot line after it gave a record
C2_Witness ==
    \E i \in 1..Len(hist) :
        /\ hist[i].before.is_in_relevant_parcel
        /\ LotShareLine(hist[i].line)
        /\ hist[i].before.current_proprietaire = <<>>
        /\ i + 2 <= Len(hist)
        /\ Len(data) = 1

\* C5 (as claimed): the Tantiemes of every record has no whitespace character and
\* has the form <digits>/<digits>.
C5_FractionNormalised ==
    \A i \in 1..Len(data) :
        NoWhitespace(data[i].Tantiemes) /\ FractionForm(data[i].Tantiemes)

\* the record that C6 expects of header h, owner o, address a and lot line l
C6_Expected(h, o, a, l) ==
    [Section |-> SectionOf(h),
     Plan |-> PlanOf(h),
     N_Lot |-> Scanned[l].lot_match.g1,
     Tantiemes |-> RemoveWhitespace(Scanned[l].tantiemes_match.g1),
     Proprietaires |-> strip(o),
     Adresse_Postale_Proprietaire |-> strip(a)]

\* C6 (as claimed): a header, one owner-name line, one address line and one
\* lot/share line give exactly one record with the header's uppercased section and
\* plan, the lot number, the whitespace-free fraction, the owner and the trimmed
\* address when the header is in the filters, and no record when it is not.
C6_EndToEnd ==
    ( /\ Len(hist) = 4
      /\ ~NoHeader(hist[1].line)
      /\ NoHeader(hist[2].line) /\ ~LotShareLine(hist[2].line)
            /\ IsNameLine(Scanned[hist[2].line])
      /\ NoHeader(hist[3].line) /\ ~LotShareLine(hist[3].line)
            /\ ~IsNameLine(Scanned[hist[3].line]) /\ Scanned[hist[3].line].address_match
      /\ LotShareLine(hist[4].line) )
        => IF /\ SectionOf(hist[1].line) \in ToSet(sections_filtre)
              /\ PlanOf(hist[1].line) \in ToSet(plans_filtre)
           THEN data = <<C6_Expected(hist[1].line, hist[2].line, hist[3].line, hist[4].line)>>
           ELSE data = <<>>

\* C7: the records are only appended to: each processed line leaves the earlier
\* records in place and adds at most one, at the end, and only a lot/share line
\* adds one, carrying its lot number; what the call returns extends every earlier
\* value of the record list.
C7_AppendOnly ==
    /\ \A i \in 1..Len(hist) :
          /\ IsPrefix(hist[i].before.data, After(i).data)
          /\ IsPrefix(After(i).data, data)
          /\ Len(After(i).data) <= Len(hist[i].before.data) + 1
          /\ After(i).data # hist[i].before.data
                => /\ LotShareLine(hist[i].line)
                   /\ After(i).data[Len(After(i).data)].N_Lot = Scanned[hist[i].line].lot_match.g1
    /\ (pc = "returned" /\ call = 1) => df_results = <<data>>

\* two records of two different lot lines were returned, in the order of the lines
C7_Witness ==
    /\ pc = "returned"
    /\ Len(data) = 2
    /\ data[1].N_Lot = "1" /\ data[2].N_Lot = "2"
    /\ hist[Len(hist) - 1].line = LotSpaces
    /\ hist[Len(hist)].line = LotTabs

\* C9: after a header line the parcel is relevant exactly when the uppercased
\* section code is an entry of the section filter and the digit string an entry of
\* the plan filter, as strings; any other line leaves the relevance as it was.
C9_Relevance ==
    \A i \in 1..Len(hist) :
        IF NoHeader(hist[i].line)
        THEN After(i).is_in_relevant_parcel = hist[i].before.is_in_relevant_parcel
        ELSE /\ After(i).is_in_relevant_parcel =
                    ( /\ SectionOf(hist[i].line) \in ToSet(sections_filtre)
                      /\ PlanOf(hist[i].line) \in ToSet(plans_filtre) )
             /\ hist[i].line = HeaderBD
                    => After(i).is_in_relevant_parcel =
                          ("BD" \in ToSet(sections_filtre) /\ "0124" \in ToSet(plans_filtre))
             /\ hist[i].line = HeaderAC
                    => After(i).is_in_relevant_parcel =
                          ("AC" \in ToSet(sections_filtre) /\ "124" \in ToSet(plans_filtre))

\* a lowercase section code matched an uppercase filter entry, and plan 124 did not
\* match the filter entry 0124
C9_Witness ==
    /\ \E i \in 1..Len(hist) : hist[i].line = HeaderBD /\ After(i).is_in_relevant_parcel
    /\ \E i \in 1..Len(hist) :
          /\ hist[i].line = HeaderAC
          /\ "AC" \in ToSet(sections_filtre)
          /\ ~After(i).is_in_relevant_parcel

----------------------------------------------------------------------------
(* Properties of owner blocks *)

\* lines i..j were all taken as owner names
NameRun(i, j) == \A k \in i..j : hist[k].kind = "name"

\* the trimmed lines i..j joined by newlines
JoinedNames(i, j) == join_newline([k \in 1..(j - i + 1) |-> strip(hist[i + k - 1].line)])

\* line j, a lot/share line, added exactly one record, with Owners o
OneRecordWithOwners(j, o) ==
    /\ LotShareLine(hist[j].line)
    /\ Len(After(j).data) = Len(hist[j].before.data) + 1
    /\ IsPrefix(hist[j].before.data, After(j).data)
    /\ After(j).data[Len(After(j).data)].Proprietaires = o

\* C3 (as claimed): in a relevant parcel, a run of owner-name lines followed by a
\* lot/share line yields exactly one record whose Owners is the names of the run
\* joined by newlines.
C3_AsClaimed ==
    \A i \in 1..Len(hist) : \A j \in i..(Len(hist) - 1) :
        ( /\ NameRun(i, j)
          /\ (i = 1 \/ hist[i - 1].kind # "name")
          /\ LotShareLine(hist[j + 1].line) )
            => OneRecordWithOwners(j + 1, JoinedNames(i, j))

\* C3 (amended): the same, for a run that starts on an empty owner block or after
\* a captured address.
C3_OwnersJoined ==
    \A i \in 1..Len(hist) : \A j \in i..(Len(hist) - 1) :
        ( /\ NameRun(i, j)
          /\ (i = 1 \/ hist[i - 1].kind # "name")
          /\ (hist[i].before.current_proprietaire = <<>> \/ hist[i].before.current_adresse # "")
          /\ LotShareLine(hist[j + 1].line) )
            => OneRecordWithOwners(j + 1, JoinedNames(i, j))

\* two owner names and their address, then one owner name and a lot line: the
\* record holds the last name alone
C3_WitnessAfterAddress ==
    /\ Len(hist) = 6
    /\ hist[2].kind = "name" /\ hist[3].kind = "name" /\ hist[4].kind = "address"
    /\ hist[2].line # hist[3].line
    /\ hist[5].kind = "name" /\ hist[6].kind = "lot"
    /\ data[Len(data)].Proprietaires = strip(hist[5].line)

\* two owner names after the header, then a lot line: one record with both names
C3_WitnessTwoNames ==
    /\ Len(hist) = 4
    /\ hist[2].line = NameDupont /\ hist[3].line = NameMartin /\ hist[4].kind = "lot"
    /\ Len(data) = 1
    /\ data[1].Proprietaires = "DUPONT JEAN\nMARTIN PAUL"

\* C4: after a header line the owner block and the address are empty, whatever
\* they were and whether the new parcel is relevant; so owner A, address X, a
\* relevant header, owner B and a lot line give one record with Owners B and an
\* empty address.
C4_HeaderResets ==
    /\ \A i \in 1..Len(hist) :
          ~NoHeader(hist[i].line)
              => After(i).current_proprietaire = <<>> /\ After(i).current_adresse = ""
    /\ \A i \in 1..(Len(hist) - 4) :
          ( /\ hist[i].kind = "name"
            /\ hist[i + 1].kind = "address"
            /\ ~NoHeader(hist[i + 2].line) /\ After(i + 2).is_in_relevant_parcel
            /\ hist[i + 3].kind = "name"
            /\ LotShareLine(hist[i + 4].line) )
              => /\ OneRecordWithOwners(i + 4, strip(hist[i + 3].line))
                 /\ After(i + 4).data[Len(After(i + 4).data)].Adresse_Postale_Proprietaire = ""

\* owner A with address X, a relevant header, owner B, a lot line
C4_Witness ==
    /\ Len(hist) = 6
    /\ hist[2].line = NameDupont /\ hist[2].kind = "name"
    /\ hist[3].kind = "address"
    /\ hist[4].line = HeaderAC
    /\ hist[5].line = NameMartin
    /\ hist[6].kind = "lot"
    /\ data = <<[Section |-> "AC", Plan |-> "124", N_Lot |-> "1", Tantiemes |-> "123/10000",
                 Proprietaires |-> "MARTIN PAUL", Adresse_Postale_Proprietaire |-> ""]>>

\* a header of a parcel outside the filter met with a filled owner block
C4_WitnessOutside ==
    \E i \in 1..Len(hist) :
        /\ hist[i].line = HeaderBD
        /\ hist[i].before.current_proprietaire # <<>>
        /\ hist[i].before.current_adresse # ""
        /\ ~After(i).is_in_relevant_parcel

----------------------------------------------------------------------------
(* Properties of two calls, and of the cut into pages *)

\* C8: a second call on the same pages with the same filters starts from the
\* locals of a first call and returns the same records.
C8_SameOutput ==
    /\ (call = 2 /\ page_no = 0 /\ pc = "pages") => Locals = NoLocals
    /\ (call = 2 /\ pc = "returned") => df_results = <<df_results[1], df_results[1]>>

\* both calls returned, with a record
C8_Witness ==
    /\ call = 2 /\ pc = "returned"
    /\ Len(df_results) = 2
    /\ df_results[2] # <<>>

\* the locals after the lines ls are processed in one pass from st
RECURSIVE OnePass(_, _)
OnePass(st, ls) ==
    IF ls = <<>> THEN st
    ELSE OnePass(LineStep(st, Scanned[Head(ls)], LineKind(st, Scanned[Head(ls)]),
                          sections_filtre, plans_filtre),
                 Tail(ls))

\* C10: whenever the call is between two pages, and when it returns, its records
\* and its parsing state are those of one pass over the lines of the pages read so
\* far, put end to end.
C10_PagesAsOnePass ==
    pc \in {"pages", "returned"} => Locals = OnePass(NoLocals, Flatten(doc))

\* an owner on one page, an empty page, the lot line on the next: one record
C10_Witness ==
    /\ pc = "returned"
    /\ doc = << <<HeaderAC, NameDupont>>, <<>>, <<LotSpaces>> >>
    /\ Len(data) = 1

\* a page that holds one empty line, skipped as a page without text
C10_WitnessEmptyLine ==
    /\ pc = "returned"
    /\ doc = << <<HeaderAC>>, <<EmptyLine>>, <<NameDupont, LotSpaces>> >>
    /\ Len(data) = 1

----------------------------------------------------------------------------
(* Properties of the rules of the line loop *)

\* what a line matches, whatever the state
MatchesName(l) == IsNameLine(Scanned[l])
MatchesAddress(l) == Scanned[l].address_match

\* the parcel fields are the same in states a and b
SameParcel(a, b) ==
    /\ a.current_section = b.current_section
    /\ a.current_plan = b.current_plan
    /\ a.is_in_relevant_parcel = b.is_in_relevant_parcel

\* C12: each processed line has the effect of one rule, the first that applies
\* in the order header, lot/share, owner name, address, none.  A header line
\* sets section and plan, empties the owner block and the address and adds no
\* record, even with a lot token and a fraction in it; a lot/share line adds no
\* address; an owner-name line adds no record and no address; an address line
\* adds no record and no owner; any other line changes nothing.
C12_OneRule ==
    \A i \in 1..Len(hist) :
        LET l == hist[i].line
            b == hist[i].before
            a == After(i)
        IN  IF ~NoHeader(l)
            THEN /\ a.data = b.data
                 /\ a.current_section = SectionOf(l) /\ a.current_plan = PlanOf(l)
                 /\ a.current_proprietaire = <<>> /\ a.current_adresse = ""
            ELSE IF ~b.is_in_relevant_parcel THEN a = b
            ELSE IF LotShareLine(l)
            THEN /\ SameParcel(a, b)
                 /\ a.current_proprietaire = b.current_proprietaire
                 /\ a.current_adresse = b.current_adresse
            ELSE IF MatchesName(l)
            THEN /\ SameParcel(a, b)
                 /\ a.data = b.data
                 /\ a.current_adresse = ""
                 /\ a.current_proprietaire # <<>>
                 /\ a.current_proprietaire[Len(a.current_proprietaire)] = strip(l)
            ELSE IF b.current_proprietaire # <<>> /\ b.current_adresse = "" /\ MatchesAddress(l)
            THEN /\ SameParcel(a, b)
                 /\ a.data = b.data
                 /\ a.current_proprietaire = b.current_proprietaire
                 /\ a.current_adresse = strip(l) \o "\n"
            ELSE a = b

\* a header line with a lot token and a fraction, and a lot/share line, each met
\* in a relevant parcel while the owner block was waiting for its address
C12_Witness ==
    /\ \E i \in 1..Len(hist) :
          /\ hist[i].line = HeaderLot
          /\ hist[i].before.is_in_relevant_parcel
          /\ hist[i].before.current_proprietaire # <<>>
          /\ hist[i].before.current_adresse = ""
    /\ \E i \in 1..Len(hist) :
          /\ hist[i].line = LotSpaces
          /\ hist[i].before.current_proprietaire # <<>>
          /\ hist[i].before.current_adresse = ""
          /\ MatchesAddress(LotSpaces)

\* line i was offered to the owner-name rule and taken by it
TakenAsName(i) ==
    /\ NoHeader(hist[i].line)
    /\ hist[i].before.is_in_relevant_parcel
    /\ ~LotShareLine(hist[i].line)
    /\ MatchesName(hist[i].line)

\* C13: an owner-name line processed while the address is non-empty leaves an
\* owner block that holds only that line, trimmed, and an empty address; one
\* processed while the address is empty is appended to the owner block, whose
\* earlier names stay in order.
C13_NameAfterAddress ==
    \A i \in 1..Len(hist) :
        TakenAsName(i) =>
            IF hist[i].before.current_adresse # ""
            THEN /\ After(i).current_proprietaire = <<strip(hist[i].line)>>
                 /\ After(i).current_adresse = ""
            ELSE /\ After(i).current_proprietaire =
                        Append(hist[i].before.current_proprietaire, strip(hist[i].line))
                 /\ After(i).current_adresse = ""

\* a second name appended to a block of one name, then the address, then a name
\* that replaces the block of two
C13_Witness ==
    /\ Len(hist) = 5
    /\ hist[2].line = NameDupont /\ hist[3].line = NameMartin
    /\ After(3).current_proprietaire = <<"DUPONT JEAN", "MARTIN PAUL">>
    /\ hist[4].line = AddressPaix /\ After(4).current_adresse # ""
    /\ hist[5].line = NameMartin
    /\ current_proprietaire = <<"MARTIN PAUL">> /\ current_adresse = ""

\* s is one trimmed line of the input read so far, with no newline in it
OneTrimmedLine(s) ==
    /\ \E k \in 1..Len(hist) : s = strip(hist[k].line)
    /\ ~Contains(s, "\n")

QualifyingLine(l) ==
    NoHeader(l) /\ ~LotShareLine(l) /\ ~MatchesName(l) /\ MatchesAddress(l)

\* C15 (as claimed): an owner-name line, two consecutive qualifying lines and a
\* lot/share line give a record whose address is the two lines, trimmed, joined
\* by a newline.
C15_AddressJoined ==
    \A i \in 1..(Len(hist) - 3) :
        ( /\ hist[i].kind = "name"
          /\ QualifyingLine(hist[i + 1].line)
          /\ QualifyingLine(hist[i + 2].line)
          /\ LotShareLine(hist[i + 3].line) )
            => /\ Len(After(i + 3).data) = Len(hist[i + 3].before.data) + 1
               /\ After(i + 3).data[Len(After(i + 3).data)].Adresse_Postale_Proprietaire =
                      strip(hist[i + 1].line) \o "\n" \o strip(hist[i + 2].line)

\* the line of history entry h met no rule: it is no header and the parcel is
\* not relevant, or it is not a lot/share line, not an owner name, and not a
\* line with a digit and a letter met while the owner block waits for its address
Unmatched(h) ==
    /\ NoHeader(h.line)
    /\ \/ ~h.before.is_in_relevant_parcel
       \/ /\ ~LotShareLine(h.line)
          /\ ~MatchesName(h.line)
          /\ ~( /\ h.before.current_proprietaire # <<>>
                /\ h.before.current_adresse = ""
                /\ MatchesAddress(h.line) )

Matched(h) == ~Unmatched(h)

\* the lines of the processed input without those that met no rule
MatchedLines ==
    LET kept == SelectSeq(hist, Matched)
    IN  [k \in 1..Len(kept) |-> kept[k].line]

C17_OutsideFilter ==
    /\ ~is_in_relevant_parcel => current_proprietaire = <<>> /\ current_adresse = ""
    /\ \A i \in 1..Len(hist) :
          ~hist[i].before.is_in_relevant_parcel
              => /\ hist[i].before.current_proprietaire = <<>>
                 /\ hist[i].before.current_adresse = ""
                 /\ NoHeader(hist[i].line) => After(i) = hist[i].before

\* a header outside the filter met with a filled owner block, then an owner-name
\* line, which is skipped
C17_Witness ==
    /\ Len(hist) = 4
    /\ hist[3].before.is_in_relevant_parcel
    /\ hist[3].before.current_proprietaire # <<>>
    /\ ~NoHeader(hist[3].line)
    /\ ~After(3).is_in_relevant_parcel
    /\ MatchesName(hist[4].line)
    /\ hist[4].kind = "skipped"
    /\ current_proprietaire = <<>>

HasLetter(s) == \E i \in 1..Len(s) : IsLetter(Ch(s, i))

\* line l is in uppercase with at least one letter, and has no "Lot <digits>"
\* token, no fraction and no substring "LOT"
LooksLikeOwner(l) ==
    /\ upper(l) = l
    /\ HasLetter(l)
    /\ ~Scanned[l].lot_match.matched
    /\ ~Scanned[l].tantiemes_match.matched
    /\ ~Contains(l, "LOT")

\* C18 (as claimed): every line taken as an owner name looks like an owner, and
\* every line of the Owners field of every record is such a line, trimmed.
C18_OwnerNames ==
    /\ \A i \in 1..Len(hist) : hist[i].kind = "name" => LooksLikeOwner(hist[i].line)
    /\ \A r \in 1..Len(data) :
          \A n \in ToSet(split_newline(data[r].Proprietaires)) :
              /\ HasLetter(n)
              /\ \E i \in 1..Len(hist) :
                    hist[i].kind = "name" /\ n = strip(hist[i].line)

\* line i was appended to the address
Captured(i) ==
    /\ After(i).current_adresse # hist[i].before.current_adresse
    /\ After(i).current_adresse # ""

\* C19 (as claimed): a line is appended to the address only when the line
\* processed just before it was taken as an owner name, never when that line
\* was a lot/share line or a line that met no rule.
C19_AddressFollowsName ==
    \A i \in 1..Len(hist) :
        Captured(i) =>
            /\ i > 1
            /\ TakenAsName(i - 1)
            /\ ~LotShareLine(hist[i - 1].line)
            /\ ~Unmatched(hist[i - 1])

\* the lot/share lines processed in a relevant parcel on a non-empty owner block
LotLinesWithOwner ==
    {i \in 1..Len(hist) :
        /\ LotShareLine(hist[i].line)
        /\ hist[i].before.is_in_relevant_parcel
        /\ hist[i].before.current_proprietaire # <<>>}

\* C20: whenever the address is non-empty the owner block is non-empty; every
\* record has a non-empty Owners field; and there are no more records than
\* lot/share lines processed in a relevant parcel on a non-empty owner block.
C20_OwnerBeforeAddress ==
    /\ current_adresse # "" => current_proprietaire # <<>>
    /\ \A i \in 1..Len(hist) :
          hist[i].before.current_adresse # "" => hist[i].before.current_proprietaire # <<>>
    /\ \A r \in 1..Len(data) : data[r].Proprietaires # ""
    /\ Len(data) <= Cardinality(LotLinesWithOwner)

\* a lot line on an empty owner block, then an owner, the address and a lot line:
\* two lot lines, one record, and the address still held
C20_Witness ==
    /\ Len(hist) = 5
    /\ hist[2].kind = "lot_no_owner"
    /\ hist[3].kind = "name"
    /\ hist[4].kind = "address"
    /\ hist[5].kind = "lot"
    /\ Len(data) = 1
    /\ Cardinality(LotLinesWithOwner) = 1
    /\ current_adresse # "" /\ current_proprietaire # <<>>

----------------------------------------------------------------------------
(* Properties of the caller *)

\* the tables of records written to the page
Surfaced == {i \in 1..Len(st_out) : st_out[i].kind \in {"dataframe", "download_button"}}

\* C11: when the call is abandoned with an exception, the page holds the notice
\* with the exception detail and the remediation hint and no table of records,
\* even if the call had accumulated records; no result was bound, and a new
\* analysis can be started.
C11_FailureHandled ==
    pc = "failed" =>
        /\ Surfaced = {}
        /\ Len(st_out) = 2
        /\ st_out[1].kind = "error" /\ st_out[1].df \in Exceptions
        /\ st_out[2] = Out("error", "format")
        /\ df_results = <<>>
        /\ ENABLED NewAnalysis

\* the exception came after a record had been accumulated
C11_Witness ==
    /\ pc = "failed"
    /\ data # <<>>
    /\ hist # <<>> /\ hist[Len(hist)].kind = "lot"

====
